---- MODULE Spec2Model ----
(***************************************************************************)
(* Model of pkg/restic/backupper_restorer.go: the per-pod volume backup    *)
(* and restore orchestrator (BackupPodVolumes / RestorePodVolumes), its    *)
(* per-volume goroutines, the unbuffered result channel and the            *)
(* namespace-scoped repository lock.                                       *)
(***************************************************************************)
EXTENDS Integers, Sequences, FiniteSets, TLC

\* ------------------------------------------------------------------ bounds
\* total number of per-volume goroutines the calls may launch
MaxTasks == 2

\* ------------------------------------------------------- fixed small sets
\* the caller's invocations of BackupPodVolumes / RestorePodVolumes
Calls == {1, 2}

Namespaces == {"ns1", "ns2"}

\* names a pod annotation may select; "ghost" is not in the pod spec
Volumes == {"data", "cache", "ghost"}

SnapshotIDs == {"s1", "s2"}

Refs == Namespaces \X SnapshotIDs

\* the snapshot annotations a pod may carry when its backup starts: none,
\* or the entry a restore from an earlier backup left on it
PodAnnotations == {<< >>, [v \in {"data"} |-> <<"ns1", "s0">>]}

\* pod.Spec.Volumes: "data" is claim backed, "cache" is not
PodSpecVolumes ==
  << [name |-> "data", claim |-> "data-claim"],
     [name |-> "cache", claim |-> ""] >>

\* pvc.Spec.VolumeName of the bound claim
ClaimVolumeName == [cl \in {"data-claim"} |-> "pvc-dir"]

NodeOf == [c \in Calls |-> IF c % 2 = 1 THEN "node1" ELSE "node2"]

PodUIDOf == [c \in Calls |-> <<"pod-uid", c>>]

\* ------------------------------------------------------------ error values
\* vol names the volume in the message of a VolumeNotFound error; for the
\* other kinds it records which task produced the (distinct) error value.
Nil == [kind |-> "nil", vol |-> ""]

Err(k, v) == [kind |-> k, vol |-> v]

ExecOutcomes == {"ok", "failed", "timeout"}

\* --------------------------------------------------------- pure functions
RECURSIVE getVolumeFrom(_, _, _)
getVolumeFrom(vols, i, volumeName) ==
  IF i > Len(vols) THEN [name |-> "", claim |-> "", found |-> FALSE]
  ELSE IF vols[i].name = volumeName
       THEN [name |-> vols[i].name, claim |-> vols[i].claim, found |-> TRUE]
       ELSE getVolumeFrom(vols, i + 1, volumeName)

\* a lookup that falls back to the pod's first volume
getVolume_DefaultsToFirst(volumeName) ==
  LET r == getVolumeFrom(PodSpecVolumes, 1, volumeName)
  IN IF r.found THEN r
     ELSE [name |-> PodSpecVolumes[1].name,
           claim |-> PodSpecVolumes[1].claim, found |-> TRUE]

getVolume(volumeName) == getVolumeFrom(PodSpecVolumes, 1, volumeName)

\* getVolumeDirectory: pvcOK is the outcome of the claim lookup
getVolumeDirectory(volume, pvcOK) ==
  IF volume.claim = ""
  THEN [dir |-> volume.name, err |-> Nil]
  ELSE IF pvcOK
       THEN [dir |-> ClaimVolumeName[volume.claim], err |-> Nil]
       ELSE [dir |-> "", err |-> Err("PVCGet", volume.name)]

backupCommand(namespace, podUID, volumeDir, volumeName) ==
  [shell |-> TRUE, command |-> "backup", repo |-> namespace,
   arg |-> <<"/host_pods", podUID, "volumes/*", volumeDir>>,
   volume |-> volumeName]

restoreCommand(namespace, podUID, snapshotID) ==
  [shell |-> FALSE, command |-> "restore", repo |-> namespace,
   arg |-> <<snapshotID>>, volume |-> ""]

completeCommand(podUID, volumeDir, c) ==
  [shell |-> FALSE, command |-> "complete", repo |-> "",
   arg |-> <<podUID, volumeDir, <<"restore-uid", c>> >>, volume |-> ""]

\* a ref that drops the namespace qualifier
QualifiedRef_Unqualified(namespace, id) == <<"", id>>

\* fmt.Sprintf("%s/%s", pod.Namespace, snapshotID)
QualifiedRef(namespace, id) == <<namespace, id>>

\* an aggregation that keeps only the first error
NewAggregate_FirstOnly(errlist) ==
  IF Len(errlist) = 0
  THEN [tag |-> "nil", errs |-> <<>>]
  ELSE [tag |-> "aggregate", errs |-> <<errlist[1]>>]

\* kerrs.NewAggregate: nil for an empty list, else the non-nil errors
NewAggregate(errlist) ==
  LET nonNil == SelectSeq(errlist, LAMBDA e : e # Nil)
  IN IF Len(nonNil) = 0
     THEN [tag |-> "nil", errs |-> <<>>]
     ELSE [tag |-> "aggregate", errs |-> nonNil]

SingleError(e) == [tag |-> "error", errs |-> <<e>>]

NoReturn == [tag |-> "none", errs |-> <<>>]

\* ------------------------------------------------------------------ state
VARIABLES
  concurrent,   \* whether the caller runs calls side by side
  pc,           \* position of each call's orchestrator
  kind,         \* "backup" or "restore"
  podNS,        \* pod.Namespace of the call's pod
  sel,          \* volumesToBackup / keys of volumesToRestore
  backupAnno,   \* the Backup's snapshot annotation: [valid, refs]
  podMeta,      \* the pod's volume -> snapshot annotations
  repoExists,   \* per namespace
  shared,       \* per namespace: number of shared holders
  excl,         \* per namespace: an exclusive holder is present
  backupSnapshots, \* the working ref list of a backup call
  errs,         \* the error list of a call
  received,     \* loop counter i
  ret,          \* the call's return value
  tpc,          \* position of each per-volume goroutine
  tdir,         \* volumeDir of the goroutine
  tres,         \* result the goroutine is sending / has sent
  hist,         \* observations of calls made to collaborators
  action        \* one run of ChangeStorageClassAction.Execute

vars == <<concurrent, pc, kind, podNS, sel, backupAnno, podMeta, repoExists,
          shared, excl, backupSnapshots, errs, received, ret,
          tpc, tdir, tres, hist, action>>

NoResult == [volumeName |-> "", snapshotID |-> <<>>, err |-> Nil]

EmptyHist ==
  [reads |-> [c \in Calls |-> 0],
   existsRes |-> [c \in Calls |-> "none"],
   initCalls |-> [n \in Namespaces |-> 0],
   initBy |-> [c \in Calls |-> 0],
   initAgain |-> [n \in Namespaces |-> 0],
   initRes |-> [c \in Calls |-> "none"],
   readErr |-> [c \in Calls |-> FALSE],
   cmds |-> [c \in Calls |-> [v \in Volumes |-> <<>>]],
   acq |-> [c \in Calls |-> [v \in Volumes |-> 0]],
   rel |-> [c \in Calls |-> [v \in Volumes |-> 0]],
   steps |-> [c \in Calls |-> [v \in Volumes |-> <<>>]],
   persists |-> [c \in Calls |-> <<>>],
   refsBefore |-> [c \in Calls |-> <<>>],
   refsAfter |-> [c \in Calls |-> <<>>],
   metaBefore |-> [c \in Calls |-> << >>],
   metaWrites |-> [c \in Calls |-> 0],
   sends |-> [c \in Calls |-> [v \in Volumes |-> 0]]]

\* everything but the repositories
InitCalls ==
  /\ pc = [c \in Calls |-> "idle"]
  /\ kind = [c \in Calls |-> "backup"]
  /\ podNS = [c \in Calls |-> "ns1"]
  /\ sel = [c \in Calls |-> {}]
  /\ \E valid \in BOOLEAN : backupAnno = [valid |-> valid, refs |-> <<>>]
  /\ podMeta = [c \in Calls |-> <<>>]
  /\ shared = [n \in Namespaces |-> 0]
  /\ excl = [n \in Namespaces |-> FALSE]
  /\ backupSnapshots = [c \in Calls |-> <<>>]
  /\ errs = [c \in Calls |-> <<>>]
  /\ received = [c \in Calls |-> 0]
  /\ ret = [c \in Calls |-> NoReturn]
  /\ tpc = [c \in Calls |-> [v \in Volumes |-> "none"]]
  /\ tdir = [c \in Calls |-> [v \in Volumes |-> ""]]
  /\ tres = [c \in Calls |-> [v \in Volumes |-> NoResult]]
  /\ hist = EmptyHist

InitCommon ==
  /\ InitCalls
  /\ repoExists = [n \in Namespaces |-> FALSE]

\* no restore item action is running
NoAction == [phase |-> "none"]

Init == concurrent = FALSE /\ InitCommon /\ action = NoAction

InitConc == concurrent = TRUE /\ InitCommon /\ action = NoAction

\* --------------------------------------------------------------- helpers
RECURSIVE SumCard(_, _)
SumCard(f, S) ==
  IF S = {} THEN 0
  ELSE LET x == CHOOSE y \in S : TRUE
       IN Cardinality(f[x]) + SumCard(f, S \ {x})

Launched == SumCard(sel, Calls)

\* the caller's scheduling of calls: in call order, side by side only when
\* the caller is concurrent, and within the task budget of the model
MayStart(c, s) ==
  /\ pc[c] = "idle"
  /\ IF c = 1 THEN TRUE ELSE pc[c - 1] # "idle"
  /\ IF concurrent THEN TRUE
     ELSE \A d \in Calls : pc[d] \in {"idle", "done"}
  /\ Launched + Cardinality(s) <= MaxTasks

\* namespaces are interchangeable: the first call's pod lives in "ns1"
PodNamespaces(c) == IF c = 1 THEN {"ns1"} ELSE Namespaces

Holding(c, v) == hist.acq[c][v] > hist.rel[c][v]

\* for ... { go br.backupVolume(...) } / go br.restoreVolume(...)
Spawned(c) == [tpc EXCEPT ![c] = [v \in Volumes |->
                 IF v \in sel[c] THEN "lookup" ELSE "none"]]

\* GetSnapshotsInBackup
GetSnapshotsInBackup(anno) ==
  IF anno.valid THEN [refs |-> anno.refs, err |-> Nil]
  ELSE [refs |-> <<>>, err |-> Err("MalformedAnnotation", "")]

\* SetPodSnapshotAnnotation: last write wins
SetPodSnapshotAnnotation(meta, volumeName, snapshotID) ==
  [x \in (DOMAIN meta) \cup {volumeName} |->
     IF x = volumeName THEN snapshotID ELSE meta[x]]

\* SetSnapshotsInBackup replaces the Backup's ref list
SetSnapshotsInBackup(anno, snapshots) == [valid |-> TRUE, refs |-> snapshots]

\* no early return for an empty selection
EmptySelection_Never(s) == FALSE

\* line 71 / 182: len(...) == 0
EmptySelection(s) == Cardinality(s) = 0

\* errors of the preliminary steps are ignored
Aborts_Never(err) == FALSE

\* lines 79-81, 85-87, 89-91: if err != nil { return err }
Aborts(err) == err # Nil

\* the repository is initialized whatever the existence check said
NeedsInit_Always(exists) == TRUE

\* line 88: if !exists
NeedsInit(exists) == ~exists

Return(c, value) ==
  /\ ret' = [ret EXCEPT ![c] = value]
  /\ pc' = [pc EXCEPT ![c] = "done"]

\* ------------------------------------------------ BackupPodVolumes: entry
\* lines 68-81: selection, then the existing refs of the Backup
BackupStart(c) ==
  \E n \in PodNamespaces(c), s \in SUBSET Volumes, m \in PodAnnotations :
    /\ MayStart(c, s)
    /\ kind' = [kind EXCEPT ![c] = "backup"]
    /\ podNS' = [podNS EXCEPT ![c] = n]
    /\ sel' = [sel EXCEPT ![c] = s]
    /\ podMeta' = [podMeta EXCEPT ![c] = m]
    /\ IF EmptySelection(s)
       THEN /\ Return(c, [tag |-> "nil", errs |-> <<>>])
            /\ hist' = [hist EXCEPT !.metaBefore[c] = m]
            /\ UNCHANGED backupSnapshots
       ELSE LET r == GetSnapshotsInBackup(backupAnno)
            IN /\ hist' = [hist EXCEPT !.reads[c] = @ + 1,
                                       !.metaBefore[c] = m,
                                       !.readErr[c] = (r.err # Nil),
                                       !.refsBefore[c] = backupAnno.refs,
                                       !.refsAfter[c] = backupAnno.refs]
               /\ IF Aborts(r.err)
                  THEN /\ Return(c, SingleError(r.err))
                       /\ UNCHANGED backupSnapshots
                  ELSE /\ backupSnapshots' =
                            [backupSnapshots EXCEPT ![c] = r.refs]
                       /\ pc' = [pc EXCEPT ![c] = "exists"]
                       /\ UNCHANGED ret
    /\ UNCHANGED <<concurrent, action, backupAnno, repoExists, shared, excl,
                   errs, received, tpc, tdir, tres>>

\* lines 84-88: RepositoryExists
RepositoryExists(c) ==
  /\ pc[c] = "exists"
  /\ \E ok \in BOOLEAN :
       LET err == IF ok THEN Nil ELSE Err("RepositoryExists", "")
           exists == ok /\ repoExists[podNS[c]]
       IN /\ hist' = [hist EXCEPT !.existsRes[c] =
                        IF ~ok THEN "error"
                        ELSE IF exists THEN "true" ELSE "false"]
          /\ IF Aborts(err)
             THEN /\ Return(c, SingleError(err))
                  /\ UNCHANGED tpc
             ELSE IF NeedsInit(exists)
                  THEN /\ pc' = [pc EXCEPT ![c] = "init"]
                       /\ UNCHANGED <<ret, tpc>>
                  ELSE /\ pc' = [pc EXCEPT ![c] = "collect"]
                       /\ tpc' = Spawned(c)
                       /\ UNCHANGED ret
  /\ UNCHANGED <<concurrent, action, kind, podNS, sel, backupAnno, podMeta,
                 repoExists, shared, excl, backupSnapshots, errs, received,
                 tdir, tres>>

\* lines 89-101: InitRepo, then the fan-out
InitRepo(c) ==
  /\ pc[c] = "init"
  /\ \E ok \in BOOLEAN :
       LET err == IF ok THEN Nil ELSE Err("InitRepo", "")
       IN /\ hist' = [hist EXCEPT !.initCalls[podNS[c]] = @ + 1,
                                  !.initBy[c] = @ + 1,
                                  !.initAgain[podNS[c]] =
                                     IF repoExists[podNS[c]] THEN @ + 1
                                     ELSE @,
                                  !.initRes[c] = IF ok THEN "ok" ELSE "error"]
          /\ repoExists' = [repoExists EXCEPT ![podNS[c]] = @ \/ ok]
          /\ IF Aborts(err)
             THEN /\ Return(c, SingleError(err))
                  /\ UNCHANGED tpc
             ELSE /\ pc' = [pc EXCEPT ![c] = "collect"]
                  /\ tpc' = Spawned(c)
                  /\ UNCHANGED ret
  /\ UNCHANGED <<concurrent, action, kind, podNS, sel, backupAnno, podMeta,
                 shared, excl, backupSnapshots, errs, received,
                 tdir, tres>>

\* ---------------------------------------------- RestorePodVolumes: entry
\* lines 179-194: the pod carries the volume -> snapshot annotations
RestoreStart(c) ==
  \E n \in PodNamespaces(c), s \in SUBSET Volumes :
    /\ MayStart(c, s)
    /\ kind' = [kind EXCEPT ![c] = "restore"]
    /\ podNS' = [podNS EXCEPT ![c] = n]
    /\ podMeta' = [podMeta EXCEPT ![c] =
                     [v \in s |-> QualifiedRef(n, "s1")]]
    /\ sel' = [sel EXCEPT ![c] = s]
    /\ hist' = [hist EXCEPT !.metaBefore[c] =
                  [v \in s |-> QualifiedRef(n, "s1")]]
    /\ IF EmptySelection(s)
       THEN /\ Return(c, [tag |-> "nil", errs |-> <<>>])
            /\ UNCHANGED tpc
       ELSE /\ pc' = [pc EXCEPT ![c] = "collect"]
            /\ tpc' = [tpc EXCEPT ![c] = [v \in Volumes |->
                         IF v \in s THEN "lookup" ELSE "none"]]
            /\ UNCHANGED ret
    /\ UNCHANGED <<concurrent, action, backupAnno, repoExists, shared, excl,
                   backupSnapshots, errs, received, tdir, tres>>

\* ------------------------------------------------- per-volume goroutines
\* one observed step of a goroutine and how it ended
Step(name, out, id) == [step |-> name, out |-> out, id |-> id]

\* a goroutine that puts its error on the call's error list by itself
TaskUnchanged_AppendsError ==
  /\ UNCHANGED <<concurrent, action, pc, kind, podNS, sel, backupAnno, podMeta,
                 repoExists, backupSnapshots, received, ret>>
  /\ errs' = [c \in Calls |->
       LET failed == {v \in Volumes : /\ tres'[c][v] # tres[c][v]
                                       /\ tres'[c][v].err # Nil}
       IN IF failed = {} THEN errs[c]
          ELSE Append(errs[c], tres'[c][CHOOSE v \in failed : TRUE].err)]

\* what no goroutine writes: backupVolume and restoreVolume only read
\* their arguments and send on the channel
TaskUnchanged ==
  UNCHANGED <<concurrent, action, pc, kind, podNS, sel, backupAnno, podMeta,
              repoExists, backupSnapshots, errs, received, ret>>

SendResult(c, v, r) ==
  /\ tres' = [tres EXCEPT ![c][v] = r]
  /\ tpc' = [tpc EXCEPT ![c][v] = "send"]

ErrResult(e) == [volumeName |-> "", snapshotID |-> <<>>, err |-> e]

\* backupVolume 132-143 / restoreVolume 207-218: getVolume, then
\* getVolumeDirectory with the outcome of the claim lookup
LookupVolume(c, v) ==
  /\ tpc[c][v] = "lookup"
  /\ LET volume == getVolume(v)
     IN IF ~volume.found
        THEN /\ SendResult(c, v, ErrResult(Err("VolumeNotFound", v)))
             /\ hist' = [hist EXCEPT !.steps[c][v] =
                           Append(@, Step("getVolume", "err", ""))]
             /\ UNCHANGED tdir
        ELSE \E pvcOK \in BOOLEAN :
               LET r == getVolumeDirectory(volume, pvcOK)
               IN /\ hist' = [hist EXCEPT !.steps[c][v] = @ \o
                      << Step("getVolume", "ok", ""),
                         Step("getVolumeDirectory",
                              IF r.err # Nil THEN "err" ELSE "ok", "") >>]
                  /\ IF r.err # Nil
                     THEN /\ SendResult(c, v, ErrResult(r.err))
                          /\ UNCHANGED tdir
                     ELSE /\ tdir' = [tdir EXCEPT ![c][v] = r.dir]
                          /\ tpc' = [tpc EXCEPT ![c][v] = "rlock"]
                          /\ UNCHANGED tres
  /\ UNCHANGED <<shared, excl>>
  /\ TaskUnchanged

\* exec without the RLock call
RLock_NoAcquire(c, v) ==
  /\ tpc[c][v] = "rlock"
  /\ tpc' = [tpc EXCEPT ![c][v] = "exec"]
  /\ UNCHANGED <<shared, excl, tdir, tres, hist>>
  /\ TaskUnchanged

\* a lock that admits one reader at a time
RLock_OneReader(c, v) ==
  /\ tpc[c][v] = "rlock"
  /\ ~excl[podNS[c]]
  /\ shared[podNS[c]] = 0
  /\ shared' = [shared EXCEPT ![podNS[c]] = @ + 1]
  /\ hist' = [hist EXCEPT !.acq[c][v] = @ + 1]
  /\ tpc' = [tpc EXCEPT ![c][v] = "exec"]
  /\ UNCHANGED <<excl, tdir, tres>>
  /\ TaskUnchanged

\* exec 173: RLock blocks while an exclusive holder is present
RLock(c, v) ==
  /\ tpc[c][v] = "rlock"
  /\ ~excl[podNS[c]]
  /\ shared' = [shared EXCEPT ![podNS[c]] = @ + 1]
  /\ hist' = [hist EXCEPT !.acq[c][v] = @ + 1]
  /\ tpc' = [tpc EXCEPT ![c][v] = "exec"]
  /\ UNCHANGED <<excl, tdir, tres>>
  /\ TaskUnchanged

\* what the remote executor is handed, and under which lock situation
Invocation(c, v, cmd, timeout, out) ==
  [cmd |-> cmd, node |-> NodeOf[c], timeout |-> timeout, out |-> out,
   locked |-> Holding(c, v), exclHeld |-> excl[podNS[c]]]

DataCommand(c, v) ==
  IF kind[c] = "backup"
  THEN backupCommand(podNS[c], PodUIDOf[c], tdir[c][v], v)
  ELSE restoreCommand(podNS[c], PodUIDOf[c], podMeta[c][v])

\* minutes: 10*time.Minute and time.Minute
ExecTimeout == 10

CompleteTimeout == 1

ExecError(o, v) == IF o = "ok" THEN Nil
                   ELSE IF o = "timeout" THEN Err("Timeout", v)
                   ELSE Err("ExecFailed", v)

\* the goroutine carries on after a failed data-movement command
AfterExec_IgnoresError(k, err) ==
  IF k = "backup" THEN "getid" ELSE "complete"

\* the goroutine tries the data-movement command again after a failure
AfterExec_Retries(k, err) ==
  IF err # Nil THEN "rlock"
  ELSE IF k = "backup" THEN "getid" ELSE "complete"

\* lines 157-160 / 223-226: if err := br.exec(...); err != nil { send; return }
AfterExec(k, err) ==
  IF err # Nil THEN "send"
  ELSE IF k = "backup" THEN "getid" ELSE "complete"

\* an unlock that is skipped when the command did not succeed
RUnlock_OnSuccessOnly(o) == IF o = "ok" THEN 1 ELSE 0

\* exec 174: defer RUnlock: the holds given back when exec returns,
\* whatever the command's outcome o
RUnlock(o) == 1

\* exec 174-176, then backupVolume 157-160 / restoreVolume 223-226: the
\* data-movement command returns, the deferred RUnlock runs and the
\* goroutine tests the error
Exec(c, v) ==
  /\ tpc[c][v] = "exec"
  /\ \E o \in ExecOutcomes :
       LET err == ExecError(o, v)
       IN /\ hist' = [hist EXCEPT
               !.cmds[c][v] = Append(@, Invocation(c, v, DataCommand(c, v),
                                                   ExecTimeout, o)),
               !.steps[c][v] = Append(@, Step("exec", o, "")),
               !.rel[c][v] = @ + RUnlock(o)]
          /\ shared' = [shared EXCEPT ![podNS[c]] = @ - RUnlock(o)]
          /\ IF AfterExec(kind[c], err) = "send"
             THEN SendResult(c, v, ErrResult(err))
             ELSE /\ tpc' = [tpc EXCEPT ![c][v] = AfterExec(kind[c], err)]
                  /\ UNCHANGED tres
  /\ UNCHANGED <<excl, tdir>>
  /\ TaskUnchanged

\* backupVolume 163-169
GetSnapshotID(c, v) ==
  /\ tpc[c][v] = "getid"
  /\ kind[c] = "backup"
  /\ \/ /\ SendResult(c, v, ErrResult(Err("GetSnapshotID", v)))
        /\ hist' = [hist EXCEPT !.steps[c][v] =
                      Append(@, Step("GetSnapshotID", "err", ""))]
     \/ \E id \in SnapshotIDs :
          /\ SendResult(c, v, [volumeName |-> v,
                               snapshotID |-> QualifiedRef(podNS[c], id),
                               err |-> Nil])
          /\ hist' = [hist EXCEPT !.steps[c][v] =
                        Append(@, Step("GetSnapshotID", "ok", id))]
  /\ UNCHANGED <<shared, excl, tdir>>
  /\ TaskUnchanged

\* restoreVolume 229-235: the completion step, called without br.exec
Complete(c, v) ==
  /\ tpc[c][v] = "complete"
  /\ kind[c] = "restore"
  /\ \E o \in {"ok", "failed"} :
       /\ hist' = [hist EXCEPT
            !.cmds[c][v] = Append(@, Invocation(c, v,
                 completeCommand(PodUIDOf[c], tdir[c][v], c),
                 CompleteTimeout, o)),
            !.steps[c][v] = Append(@, Step("complete", o, ""))]
       /\ SendResult(c, v, ErrResult(IF o = "ok" THEN Nil
                                     ELSE Err("CompleteFailed", v)))
  /\ UNCHANGED <<shared, excl, tdir>>
  /\ TaskUnchanged

\* ----------------------------------------------------------- the fan-in
\* a loop that stops one receive short
AfterLoop_OneShort(c, n) ==
  IF n < Cardinality(sel[c]) - 1 THEN "collect"
  ELSE IF kind[c] = "backup" THEN "persist" ELSE "return"

\* a loop that waits for one result more than there are goroutines
AfterLoop_OneMore(c, n) ==
  IF n < Cardinality(sel[c]) + 1 THEN "collect"
  ELSE IF kind[c] = "backup" THEN "persist" ELSE "return"

\* lines 103 / 196: for i, count := 0, len(...); i < count; i++
AfterLoop(c, n) ==
  IF n < Cardinality(sel[c]) THEN "collect"
  ELSE IF kind[c] = "backup" THEN "persist" ELSE "return"

\* a switch that records the snapshot of a failed result as well
CollectResult_RecordsFailures(res, meta, snaps, es) ==
  [meta |-> SetPodSnapshotAnnotation(meta, res.volumeName, res.snapshotID),
   snaps |-> Append(snaps, res.snapshotID),
   errs |-> IF res.err # Nil THEN Append(es, res.err) ELSE es]

\* a switch that starts the list over with the received snapshot
CollectResult_DropsExisting(res, meta, snaps, es) ==
  IF res.err # Nil
  THEN [meta |-> meta, snaps |-> snaps, errs |-> Append(es, res.err)]
  ELSE [meta |-> SetPodSnapshotAnnotation(meta, res.volumeName,
                                          res.snapshotID),
        snaps |-> << res.snapshotID >>,
        errs |-> es]

\* BackupPodVolumes 105-111: the switch on one received result
CollectResult(res, meta, snaps, es) ==
  IF res.err # Nil
  THEN [meta |-> meta, snaps |-> snaps, errs |-> Append(es, res.err)]
  ELSE [meta |-> SetPodSnapshotAnnotation(meta, res.volumeName,
                                          res.snapshotID),
        snaps |-> Append(snaps, res.snapshotID),
        errs |-> es]

\* RestorePodVolumes 197-199
CollectError(err, es) == IF err # Nil THEN Append(es, err) ELSE es

\* BackupPodVolumes 103-112: one receive of the unbuffered channel, which
\* is also the goroutine's send and its return
BackupCollect(c, v) ==
  /\ pc[c] = "collect"
  /\ kind[c] = "backup"
  /\ tpc[c][v] = "send"
  /\ received[c] < Cardinality(sel[c])
  /\ LET new == CollectResult(tres[c][v], podMeta[c], backupSnapshots[c],
                               errs[c])
     IN /\ podMeta' = [podMeta EXCEPT ![c] = new.meta]
        /\ backupSnapshots' = [backupSnapshots EXCEPT ![c] = new.snaps]
        /\ errs' = [errs EXCEPT ![c] = new.errs]
        /\ hist' = [hist EXCEPT !.metaWrites[c] =
                      IF new.meta # podMeta[c] THEN @ + 1 ELSE @,
                                 !.sends[c][v] = @ + 1]
  /\ received' = [received EXCEPT ![c] = @ + 1]
  /\ pc' = [pc EXCEPT ![c] = AfterLoop(c, received[c] + 1)]
  /\ tpc' = [tpc EXCEPT ![c][v] = "done"]
  /\ UNCHANGED <<concurrent, action, kind, podNS, sel, backupAnno, repoExists,
                 shared, excl, ret, tdir, tres>>

\* RestorePodVolumes 196-200
RestoreCollect(c, v) ==
  /\ pc[c] = "collect"
  /\ kind[c] = "restore"
  /\ tpc[c][v] = "send"
  /\ received[c] < Cardinality(sel[c])
  /\ errs' = [errs EXCEPT ![c] = CollectError(tres[c][v].err, @)]
  /\ received' = [received EXCEPT ![c] = @ + 1]
  /\ pc' = [pc EXCEPT ![c] = AfterLoop(c, received[c] + 1)]
  /\ tpc' = [tpc EXCEPT ![c][v] = "done"]
  /\ hist' = [hist EXCEPT !.sends[c][v] = @ + 1]
  /\ UNCHANGED <<concurrent, action, kind, podNS, sel, backupAnno, podMeta,
                 repoExists, shared, excl, backupSnapshots, ret,
                 tdir, tres>>

\* the annotation is written whatever the list holds
ShouldPersist_Always(snaps) == TRUE

\* line 115: only write the annotation with at least one snapshot
ShouldPersist(snaps) == Len(snaps) > 0

\* BackupPodVolumes 114-122
PersistAndReturn(c) ==
  /\ pc[c] = "persist"
  /\ IF ShouldPersist(backupSnapshots[c])
     THEN \E ok \in BOOLEAN :
            /\ backupAnno' = IF ok
                 THEN SetSnapshotsInBackup(backupAnno, backupSnapshots[c])
                 ELSE backupAnno
            /\ errs' = [errs EXCEPT ![c] =
                 IF ok THEN @ ELSE Append(@, Err("SetSnapshots", ""))]
            /\ hist' = [hist EXCEPT
                 !.persists[c] =
                    Append(@, [refs |-> backupSnapshots[c], ok |-> ok,
                               received |-> received[c]]),
                 !.refsAfter[c] = backupAnno'.refs]
            /\ Return(c, NewAggregate(errs'[c]))
     ELSE /\ hist' = [hist EXCEPT !.refsAfter[c] = backupAnno.refs]
          /\ Return(c, NewAggregate(errs[c]))
          /\ UNCHANGED <<backupAnno, errs>>
  /\ UNCHANGED <<concurrent, action, kind, podNS, sel, podMeta, repoExists,
                 shared, excl, backupSnapshots, received,
                 tpc, tdir, tres>>

\* RestorePodVolumes 202
RestoreReturn(c) ==
  /\ pc[c] = "return"
  /\ Return(c, NewAggregate(errs[c]))
  /\ UNCHANGED <<concurrent, action, kind, podNS, sel, backupAnno, podMeta,
                 repoExists, shared, excl, backupSnapshots, errs, received,
                 tpc, tdir, tres, hist>>

\* ------------------------------- repository-exclusive work outside the core
\* the repositories on which exclusive maintenance runs; pods of the other
\* namespace never meet an exclusive holder
MaintainedNamespaces == {"ns1"}

ExclusiveLock(n) ==
  /\ \A m \in Namespaces : ~excl[m]
  /\ shared[n] = 0
  /\ excl' = [excl EXCEPT ![n] = TRUE]
  /\ UNCHANGED <<concurrent, action, pc, kind, podNS, sel, backupAnno, podMeta,
                 repoExists, shared, backupSnapshots, errs, received, ret,
                 tpc, tdir, tres, hist>>

ExclusiveUnlock(n) ==
  /\ excl[n]
  /\ excl' = [excl EXCEPT ![n] = FALSE]
  /\ UNCHANGED <<concurrent, action, pc, kind, podNS, sel, backupAnno, podMeta,
                 repoExists, shared, backupSnapshots, errs, received, ret,
                 tpc, tdir, tres, hist>>

Next ==
  \/ \E c \in Calls : BackupStart(c)
  \/ \E c \in Calls : RepositoryExists(c)
  \/ \E c \in Calls : InitRepo(c)
  \/ \E c \in Calls : RestoreStart(c)
  \/ \E c \in Calls, v \in Volumes : LookupVolume(c, v)
  \/ \E c \in Calls, v \in Volumes : RLock(c, v)
  \/ \E c \in Calls, v \in Volumes : Exec(c, v)
  \/ \E c \in Calls, v \in Volumes : GetSnapshotID(c, v)
  \/ \E c \in Calls, v \in Volumes : Complete(c, v)
  \/ \E c \in Calls, v \in Volumes : BackupCollect(c, v)
  \/ \E c \in Calls, v \in Volumes : RestoreCollect(c, v)
  \/ \E c \in Calls : PersistAndReturn(c)
  \/ \E c \in Calls : RestoreReturn(c)
  \/ \E n \in MaintainedNamespaces : ExclusiveLock(n)
  \/ \E n \in MaintainedNamespaces : ExclusiveUnlock(n)

Spec == Init /\ [][Next]_vars

SpecConc == InitConc /\ [][Next]_vars

\* ------------------------------------------------------------- scheduling
\* the steps of the orchestrator of call c once it has been called
Orchestrator(c) ==
  \/ RepositoryExists(c)
  \/ InitRepo(c)
  \/ \E v \in Volumes : BackupCollect(c, v)
  \/ \E v \in Volumes : RestoreCollect(c, v)
  \/ PersistAndReturn(c)
  \/ RestoreReturn(c)

\* the steps of the goroutine of volume v up to its send
Goroutine(c, v) ==
  \/ LookupVolume(c, v)
  \/ RLock(c, v)
  \/ Exec(c, v)
  \/ GetSnapshotID(c, v)
  \/ Complete(c, v)

\* some call's orchestrator or goroutine takes a step
Progress ==
  \/ \E c \in Calls : Orchestrator(c)
  \/ \E c \in Calls, v \in Volumes : Goroutine(c, v)

\* the scheduler keeps running what can run, every external call returns
\* (the remote command at the latest by its timeout), a reader waiting for
\* the lock gets it once the exclusive holder is gone, and an exclusive
\* holder does not hold forever.  A run takes finitely many steps, so this
\* is implied by, and weaker than, fairness to each goroutine by itself.
Fairness ==
  /\ SF_vars(Progress)
  /\ \A n \in MaintainedNamespaces : WF_vars(ExclusiveUnlock(n))

\* one call by itself, made with the repositories present or not
FirstCall == {c \in Calls : \A d \in Calls : c <= d}

InitOne ==
  /\ concurrent = FALSE
  /\ action = NoAction
  /\ InitCalls
  /\ \E e \in BOOLEAN : repoExists = [n \in Namespaces |-> e]

NextOne ==
  \/ \E c \in FirstCall : BackupStart(c)
  \/ \E c \in FirstCall : RepositoryExists(c)
  \/ \E c \in FirstCall : InitRepo(c)
  \/ \E c \in FirstCall : RestoreStart(c)
  \/ \E c \in FirstCall, v \in Volumes : LookupVolume(c, v)
  \/ \E c \in FirstCall, v \in Volumes : RLock(c, v)
  \/ \E c \in FirstCall, v \in Volumes : Exec(c, v)
  \/ \E c \in FirstCall, v \in Volumes : GetSnapshotID(c, v)
  \/ \E c \in FirstCall, v \in Volumes : Complete(c, v)
  \/ \E c \in FirstCall, v \in Volumes : BackupCollect(c, v)
  \/ \E c \in FirstCall, v \in Volumes : RestoreCollect(c, v)
  \/ \E c \in FirstCall : PersistAndReturn(c)
  \/ \E c \in FirstCall : RestoreReturn(c)
  \/ \E n \in MaintainedNamespaces : ExclusiveLock(n)
  \/ \E n \in MaintainedNamespaces : ExclusiveUnlock(n)

SpecOne == InitOne /\ [][NextOne]_vars

SpecFair == SpecOne /\ Fairness

TypeOK == \A c \in Calls : pc[c] \in
  {"idle", "exists", "init", "collect", "persist", "return", "done"}

\* ------------------------------------------ ChangeStorageClassAction
\* pkg/restore/change_storageclass_action.go: Execute on one PV or PVC
StorageClasses == {"sc1", "sc2", "sc3"}

\* config.Data: mappings from a storage class name to its replacement
Mappings ==
  UNION {[D -> StorageClasses] : D \in SUBSET {"sc1", "sc2"}}

\* what getPluginConfig returns: an error, no config map (nil), or a
\* config map with its data
PluginConfigs ==
  {[err |-> TRUE, present |-> FALSE, data |-> << >>],
   [err |-> FALSE, present |-> FALSE, data |-> << >>]}
    \cup {[err |-> FALSE, present |-> TRUE, data |-> m] : m \in Mappings}

\* input.Item: an *unstructured.Unstructured or something else; its
\* spec.storageClassName is absent, a string, or of another type
Items ==
  {[unstructured |-> FALSE, field |-> "absent", value |-> ""],
   [unstructured |-> TRUE, field |-> "absent", value |-> ""],
   [unstructured |-> TRUE, field |-> "other", value |-> ""]}
    \cup {[unstructured |-> TRUE, field |-> "string", value |-> x] :
            x \in StorageClasses \cup {""}}

\* the storage-class API: whether it answers, and the classes it knows
StorageClassAPIs ==
  {[ok |-> o, classes |-> k] :
     o \in BOOLEAN, k \in SUBSET StorageClasses}

NilItem == [unstructured |-> FALSE, field |-> "nil", value |-> ""]

\* unstructured.NestedString(obj, "spec", "storageClassName")
NestedString(item) ==
  IF item.field = "string"
  THEN [val |-> item.value, found |-> TRUE, err |-> FALSE]
  ELSE IF item.field = "absent"
       THEN [val |-> "", found |-> FALSE, err |-> FALSE]
       ELSE [val |-> "", found |-> FALSE, err |-> TRUE]

\* unstructured.SetNestedField(obj, newStorageClass, "spec", ...)
SetNestedField(item, newStorageClass) ==
  [item EXCEPT !.field = "string", !.value = newStorageClass]

\* a lookup of the new class whose error is dropped
StorageClassGet_Unchecked(api, name) == TRUE

\* line 106: storageClassClient.Get(newStorageClass): found or not
StorageClassGet(api, name) == api.ok /\ name \in api.classes

\* velero.NewRestoreItemActionExecuteOutput(item), nil
Output(item) == [item |-> item, err |-> ""]

\* return nil, err
Failure(err) == [item |-> NilItem, err |-> err]

\* lines 62-117: the returned pair and the input item as it is afterwards
ExecuteOn(config, item, api) ==
  IF config.err
  THEN [out |-> Failure("getPluginConfig"), item |-> item]
  ELSE IF ~config.present \/ DOMAIN config.data = {}
  THEN [out |-> Output(item), item |-> item]
  ELSE IF ~item.unstructured
  THEN [out |-> Failure("unexpected type"), item |-> item]
  ELSE LET ns == NestedString(item)
       IN IF ns.err
          THEN [out |-> Failure("storageClassName"), item |-> item]
          ELSE IF ns.val = ""
          THEN [out |-> Output(item), item |-> item]
          ELSE IF ns.val \notin DOMAIN config.data
          THEN [out |-> Output(item), item |-> item]
          ELSE LET newStorageClass == config.data[ns.val]
               IN IF ~StorageClassGet(api, newStorageClass)
                  THEN [out |-> Failure("storage class API"), item |-> item]
                  ELSE LET obj == SetNestedField(item, newStorageClass)
                       IN [out |-> Output(obj), item |-> obj]

InitAction ==
  /\ concurrent = FALSE
  /\ InitCommon
  /\ \E config \in PluginConfigs, item \in Items, api \in StorageClassAPIs :
       action = [phase |-> "called", config |-> config, input |-> item,
                 api |-> api, item |-> item, out |-> Output(NilItem)]

Execute ==
  /\ action.phase = "called"
  /\ LET r == ExecuteOn(action.config, action.input, action.api)
     IN action' = [action EXCEPT !.phase = "returned",
                                 !.out = r.out, !.item = r.item]
  /\ UNCHANGED <<concurrent, pc, kind, podNS, sel, backupAnno, podMeta,
                 repoExists, shared, excl, backupSnapshots, errs, received,
                 ret, tpc, tdir, tres, hist>>

NextAction == Execute

SpecAction == InitAction /\ [][NextAction]_vars

\* ================================================================ claims
PastAbort(c) == \E v \in Volumes : tpc[c][v] # "none"

\* a step of the goroutine of volume v failed
OwnFailure(c, v) ==
  \E i \in DOMAIN hist.steps[c][v] : hist.steps[c][v][i].out # "ok"

FailedVolumes(c) == {v \in sel[c] : OwnFailure(c, v)}

PersistFailed(c) ==
  \E i \in DOMAIN hist.persists[c] : ~hist.persists[c][i].ok

ErrorsFor(es, v) == Cardinality({i \in DOMAIN es : es[i].vol = v})

Count(x, q) == Cardinality({i \in DOMAIN q : q[i] = x})

\* the ID the goroutine of a successful backup resolved
ResolvedID(c, v) == hist.steps[c][v][Len(hist.steps[c][v])].id

\* C1: a call that got past the abort checks returns no error iff no
\* volume failed and persisting did not fail; otherwise the aggregate holds
\* exactly one error per failed volume plus one for a failed persistence,
\* and the volumes that succeeded stay recorded as successes.
C1_AggregateExact ==
  \A c \in Calls :
    (pc[c] = "done" /\ PastAbort(c)) =>
      LET F == FailedVolumes(c)
          p == PersistFailed(c)
      IN /\ (ret[c].tag = "nil") <=> (F = {} /\ ~p)
         /\ ret[c].tag \in {"nil", "aggregate"}
         /\ Len(ret[c].errs) = Cardinality(F) + (IF p THEN 1 ELSE 0)
         /\ \A v \in sel[c] :
              ErrorsFor(ret[c].errs, v) = (IF v \in F THEN 1 ELSE 0)
         /\ kind[c] = "backup" =>
              \A v \in sel[c] \ F :
                /\ v \in DOMAIN podMeta[c]
                /\ podMeta[c][v] = <<podNS[c], ResolvedID(c, v)>>

\* in a backup call one volume fails while another succeeds
C1_Witness ==
  \E c \in Calls :
    /\ pc[c] = "done" /\ kind[c] = "backup"
    /\ FailedVolumes(c) # {} /\ sel[c] \ FailedVolumes(c) # {}
    /\ ret[c].tag = "aggregate"

\* C2: only volumes whose backup succeeded change state: a failing task
\* adds no pod-metadata entry and no ref to the working list, and when
\* every selected volume fails the pod metadata and the Backup's ref list
\* are after the call what they were before it.
C2_OnlySuccessesChangeState ==
  \A c \in Calls :
    (kind[c] = "backup" /\ PastAbort(c)) =>
      LET ok == {v \in sel[c] : tpc[c][v] = "done" /\ ~OwnFailure(c, v)}
          before == hist.metaBefore[c]
      IN /\ DOMAIN podMeta[c] = ok \cup DOMAIN before
         /\ \A v \in (DOMAIN before) \ ok : podMeta[c][v] = before[v]
         /\ Len(backupSnapshots[c]) =
              Len(hist.refsBefore[c]) + Cardinality(ok)
         /\ SubSeq(backupSnapshots[c], 1, Len(hist.refsBefore[c])) =
              hist.refsBefore[c]
         /\ (pc[c] = "done" /\ FailedVolumes(c) = sel[c]) =>
              /\ podMeta[c] = hist.metaBefore[c]
              /\ hist.refsAfter[c] = hist.refsBefore[c]

\* every volume of a backup call failed, one of them by a timeout, on a
\* pod and a Backup that already carried an entry
C2_Witness ==
  \E c \in Calls :
    /\ pc[c] = "done" /\ kind[c] = "backup" /\ PastAbort(c)
    /\ FailedVolumes(c) = sel[c]
    /\ "data" \in sel[c] /\ "data" \in DOMAIN podMeta[c]
    /\ \E i \in DOMAIN ret[c].errs : ret[c].errs[i].kind = "Timeout"
    /\ Len(hist.refsBefore[c]) > 0
    /\ Len(hist.persists[c]) = 1

Succeeded(c) == sel[c] \ FailedVolumes(c)

BackupDone(c) == pc[c] = "done" /\ kind[c] = "backup" /\ PastAbort(c)

\* C3 as stated: after the call the pod metadata maps every successful
\* volume V to "<namespace>/<resolvedID>" and the Backup's ref list holds
\* that ref exactly once.
C3_RefExactlyOnce ==
  \A c \in Calls :
    BackupDone(c) =>
      \A v \in Succeeded(c) :
        LET ref == <<podNS[c], ResolvedID(c, v)>>
        IN /\ v \in DOMAIN podMeta[c]
           /\ podMeta[c][v] = ref
           /\ Count(ref, hist.refsAfter[c]) = 1

\* C3 amended: the pod metadata maps every successful volume V to
\* "<namespace>/<resolvedID>"; when persisting succeeds the Backup's ref
\* list holds that ref once per successful volume of the call that
\* resolved to it, on top of its occurrences in the list read at the
\* start; when persisting fails the Backup's list is left as it was.
C3_RefRecorded ==
  \A c \in Calls :
    BackupDone(c) =>
      \A v \in Succeeded(c) :
        LET ref == <<podNS[c], ResolvedID(c, v)>>
            same == {w \in Succeeded(c) : ResolvedID(c, w) = ResolvedID(c, v)}
        IN /\ v \in DOMAIN podMeta[c]
           /\ podMeta[c][v] = ref
           /\ IF PersistFailed(c)
              THEN hist.refsAfter[c] = hist.refsBefore[c]
              ELSE Count(ref, hist.refsAfter[c]) =
                     Count(ref, hist.refsBefore[c]) + Cardinality(same)

\* a volume succeeds whose ref the Backup already carried: the persisted
\* list then holds the ref twice
C3_Witness ==
  \E c \in Calls :
    /\ BackupDone(c) /\ ~PersistFailed(c)
    /\ \E v \in Succeeded(c) :
         /\ podMeta[c][v] = <<podNS[c], ResolvedID(c, v)>>
         /\ Count(podMeta[c][v], hist.refsBefore[c]) = 1
         /\ Count(podMeta[c][v], hist.refsAfter[c]) = 2

NoTaskEffects(c) ==
  /\ ~PastAbort(c)
  /\ \A v \in Volumes :
       /\ hist.cmds[c][v] = << >>
       /\ hist.acq[c][v] = 0
       /\ hist.steps[c][v] = << >>
  /\ podMeta[c] = hist.metaBefore[c]
  /\ hist.metaWrites[c] = 0
  /\ hist.persists[c] = << >>

\* C4: when the existence check fails, or the repository is missing and
\* its initialization fails, the call returns that single error with no
\* task started, no remote command, no lock acquisition and no metadata
\* written; InitRepo is invoked only after an existence check said false.
C4_RepoFailureAborts ==
  \A c \in Calls :
    /\ hist.existsRes[c] = "error" =>
         /\ pc[c] = "done"
         /\ ret[c] = [tag |-> "error",
                      errs |-> <<Err("RepositoryExists", "")>>]
         /\ hist.initBy[c] = 0
         /\ NoTaskEffects(c)
    /\ hist.initRes[c] = "error" =>
         /\ pc[c] = "done"
         /\ ret[c] = [tag |-> "error", errs |-> <<Err("InitRepo", "")>>]
         /\ NoTaskEffects(c)
    /\ hist.initBy[c] > 0 => hist.existsRes[c] = "false"
    /\ hist.initBy[c] <= 1

\* one call stopped at a failed existence check, another at a failed
\* initialization
C4_Witness ==
  \E c, d \in Calls :
    /\ hist.existsRes[c] = "error" /\ pc[c] = "done"
    /\ hist.initRes[d] = "error" /\ pc[d] = "done"

\* C5: a repository is initialized at most once per namespace, over any
\* sequence or interleaving of BackupPodVolumes calls: once InitRepo has
\* succeeded for a namespace it is not invoked for that namespace again.
\* (A retry by a later call after a failed InitRepo is not counted.)
C5_InitAtMostOnce ==
  \A n \in Namespaces : hist.initAgain[n] = 0

\* C6: a call whose selection is empty returns success and leaves no
\* trace: no Backup read, no existence check or initialization, no lock
\* acquisition, no remote command, no task and no metadata written.
C6_EmptySelectionNoEffects ==
  \A c \in Calls :
    (pc[c] # "idle" /\ sel[c] = {}) =>
      /\ pc[c] = "done"
      /\ ret[c] = [tag |-> "nil", errs |-> << >>]
      /\ hist.reads[c] = 0
      /\ hist.existsRes[c] = "none"
      /\ hist.initBy[c] = 0
      /\ NoTaskEffects(c)

\* a backup call and a restore call both returned on an empty selection
C6_Witness ==
  \E c, d \in Calls :
    /\ pc[c] = "done" /\ sel[c] = {} /\ kind[c] = "backup"
    /\ pc[d] = "done" /\ sel[d] = {} /\ kind[d] = "restore"
    /\ ret[c].tag = "nil" /\ ret[d].tag = "nil"

\* C7: when reading the Backup's existing refs fails the call returns
\* that error at once: no existence check, no initialization, no task, no
\* remote command and no metadata written.
C7_ReadErrorAborts ==
  \A c \in Calls :
    hist.readErr[c] =>
      /\ pc[c] = "done"
      /\ ret[c] = [tag |-> "error",
                   errs |-> <<Err("MalformedAnnotation", "")>>]
      /\ hist.existsRes[c] = "none"
      /\ hist.initBy[c] = 0
      /\ NoTaskEffects(c)

\* a backup call with a non-empty selection met a malformed annotation
C7_Witness ==
  \E c \in Calls :
    /\ hist.readErr[c] /\ pc[c] = "done"
    /\ sel[c] # {} /\ hist.reads[c] = 1

MissingFromPod(v) ==
  \A i \in DOMAIN PodSpecVolumes : PodSpecVolumes[i].name # v

\* C8: a selected volume V that the pod spec lacks yields exactly one
\* error, naming V, and no remote command; every other selected volume
\* ends as its own steps decide.
C8_MissingVolumeIsolated ==
  \A c \in Calls :
    (pc[c] = "done" /\ PastAbort(c)) =>
      \A v \in sel[c] :
        IF MissingFromPod(v)
        THEN /\ Count(Err("VolumeNotFound", v), ret[c].errs) = 1
             /\ ErrorsFor(ret[c].errs, v) = 1
             /\ hist.cmds[c][v] = << >>
             /\ hist.acq[c][v] = 0
        ELSE /\ hist.steps[c][v][1] = Step("getVolume", "ok", "")
             /\ ErrorsFor(ret[c].errs, v) =
                  (IF OwnFailure(c, v) THEN 1 ELSE 0)
             /\ Count(Err("VolumeNotFound", v), ret[c].errs) = 0
             /\ (kind[c] = "backup" /\ ~OwnFailure(c, v)) =>
                  /\ v \in DOMAIN podMeta[c]
                  /\ podMeta[c][v] = <<podNS[c], ResolvedID(c, v)>>

\* a missing volume was selected next to a volume that succeeded
C8_Witness ==
  \E c \in Calls :
    /\ pc[c] = "done" /\ PastAbort(c)
    /\ \E v, w \in sel[c] :
         /\ MissingFromPod(v) /\ ~MissingFromPod(w)
         /\ ~OwnFailure(c, w)
         /\ ret[c].errs = <<Err("VolumeNotFound", v)>>

\* C9: in a restore the completion step is issued only after the restore
\* command of that volume returned success, at most once, on the node of
\* the restore command; a failed completion step makes the volume fail
\* with exactly one error.
C9_CompletionAfterRestore ==
  \A c \in Calls :
    kind[c] = "restore" =>
      \A v \in sel[c] :
        LET q == hist.cmds[c][v]
        IN /\ Len(q) <= 2
           /\ Len(q) >= 1 => q[1].cmd.command = "restore"
           /\ Len(q) = 2 =>
                /\ q[2].cmd.command = "complete"
                /\ q[1].out = "ok"
                /\ q[2].node = q[1].node
           /\ (pc[c] = "done" /\ Len(q) = 2 /\ q[2].out # "ok") =>
                /\ ErrorsFor(ret[c].errs, v) = 1
                /\ Count(Err("CompleteFailed", v), ret[c].errs) = 1

\* a restore whose data movement succeeded and whose completion failed
C9_Witness ==
  \E c \in Calls :
    /\ pc[c] = "done" /\ kind[c] = "restore"
    /\ \E v \in sel[c] :
         /\ Len(hist.cmds[c][v]) = 2
         /\ hist.cmds[c][v][1].out = "ok"
         /\ hist.cmds[c][v][2].out = "failed"
         /\ ret[c] = [tag |-> "aggregate",
                      errs |-> <<Err("CompleteFailed", v)>>]

\* C10 as stated: every remote command of a task, the completion step
\* included, is invoked while the task holds the namespace's shared lock
\* and so never while an exclusive holder of that namespace is present.
C10_AllCommandsUnderLock ==
  \A c \in Calls, v \in Volumes :
    \A i \in DOMAIN hist.cmds[c][v] :
      /\ hist.cmds[c][v][i].locked
      /\ ~hist.cmds[c][v][i].exclHeld

\* C10 amended: the backup command and the restore command are invoked
\* while the task holds the namespace's shared lock and never while an
\* exclusive holder of that namespace is present; the restore completion
\* step is invoked without the lock.
C10_DataCommandsUnderLock ==
  /\ \A c \in Calls, v \in Volumes :
       \A i \in DOMAIN hist.cmds[c][v] :
         LET x == hist.cmds[c][v][i]
         IN IF x.cmd.command \in {"backup", "restore"}
            THEN x.locked /\ ~x.exclHeld
            ELSE ~x.locked
  /\ \A c \in Calls, v \in Volumes :
       tpc[c][v] = "exec" =>
         /\ Holding(c, v)
         /\ shared[podNS[c]] >= 1
         /\ ~excl[podNS[c]]

\* a restore command ran under the lock and its completion step ran
\* without it, while an exclusive holder of the namespace was present
C10_Witness ==
  \E c \in Calls, v \in Volumes :
    /\ Len(hist.cmds[c][v]) = 2
    /\ hist.cmds[c][v][1].locked
    /\ ~hist.cmds[c][v][2].locked
    /\ hist.cmds[c][v][2].exclHeld

\* the data-movement commands of a task that have returned
DataCommands(c, v) ==
  {i \in DOMAIN hist.cmds[c][v] :
     hist.cmds[c][v][i].cmd.command \in {"backup", "restore"}}

Holders(n) == {x \in Calls \X Volumes : Holding(x[1], x[2]) /\ podNS[x[1]] = n}

\* C11: the shared lock is given back whatever the command's outcome: a
\* task's releases never exceed its acquisitions, one release has happened
\* for every data-movement command that returned (success, failure or
\* timeout), a task holds the lock exactly while it is executing that
\* command, and a call that has returned holds nothing.
C11_LockReleased ==
  /\ \A c \in Calls, v \in Volumes :
       /\ hist.rel[c][v] <= hist.acq[c][v]
       /\ hist.acq[c][v] <= hist.rel[c][v] + 1
       /\ hist.rel[c][v] = Cardinality(DataCommands(c, v))
       /\ Holding(c, v) <=> tpc[c][v] = "exec"
  /\ \A c \in Calls :
       pc[c] = "done" => \A v \in Volumes : ~Holding(c, v)
  /\ \A n \in Namespaces : shared[n] = Cardinality(Holders(n))

\* a call returned after one of its commands timed out and another failed,
\* each task having acquired and released once
C11_Witness ==
  \E c \in Calls :
    /\ pc[c] = "done"
    /\ \E v, w \in sel[c] :
         /\ hist.cmds[c][v] # << >> /\ hist.cmds[c][v][1].out = "timeout"
         /\ hist.cmds[c][w] # << >> /\ hist.cmds[c][w][1].out = "failed"
         /\ hist.acq[c][v] = 1 /\ hist.rel[c][v] = 1
         /\ hist.acq[c][w] = 1 /\ hist.rel[c][w] = 1
    /\ shared[podNS[c]] = 0

Delivered(c) == {v \in Volumes : hist.sends[c][v] > 0}

\* C12: the fan-in is exact: every launched task sends at most one result
\* and is finished exactly when it has been received, the orchestrator's
\* receive count is the number of results delivered, and the orchestrator
\* is past its loop only when it has received one result from every task
\* it launched, so it never returns with a task running or undelivered.
C12_FanInExact ==
  \A c \in Calls :
    /\ \A v \in Volumes :
         /\ hist.sends[c][v] <= 1
         /\ hist.sends[c][v] = 1 <=> tpc[c][v] = "done"
         /\ tpc[c][v] # "none" => v \in sel[c]
    /\ received[c] = Cardinality(Delivered(c))
    /\ (pc[c] \in {"persist", "return", "done"} /\ PastAbort(c)) =>
         /\ received[c] = Cardinality(sel[c])
         /\ Delivered(c) = sel[c]
         /\ \A v \in sel[c] : tpc[c][v] = "done"
    /\ pc[c] = "collect" => \A v \in sel[c] : tpc[c][v] # "none"

\* a call returned after a task that failed at its first step and a task
\* that went through all its steps were both received
C12_Witness ==
  \E c \in Calls :
    /\ pc[c] = "done" /\ received[c] = 2
    /\ \E v, w \in sel[c] :
         /\ Len(hist.steps[c][v]) = 1 /\ OwnFailure(c, v)
         /\ ~OwnFailure(c, w) /\ Len(hist.steps[c][w]) > 2
         /\ hist.sends[c][v] = 1 /\ hist.sends[c][w] = 1

Terminated(c) ==
  /\ pc[c] = "done"
  /\ \A v \in Volumes : tpc[c][v] \in {"none", "done"}

\* C13: under fair scheduling, with every external call returning, a call
\* of BackupPodVolumes or RestorePodVolumes that has been made eventually
\* returns with every goroutine it launched finished: no goroutine stays
\* blocked on its send and the collecting loop does not wait forever.
C13_EventuallyReturns ==
  \A c \in Calls : (pc[c] # "idle") ~> Terminated(c)

\* a call with two goroutines returned, one of them after its command
\* timed out, while an exclusive holder was keeping readers out
C13_Witness ==
  \E c \in Calls :
    /\ Terminated(c) /\ received[c] = 2
    /\ excl[podNS[c]]
    /\ \E v \in sel[c] :
         hist.steps[c][v][Len(hist.steps[c][v])].out = "timeout"

\* C14: in a backup call that got past the abort checks the Backup's ref
\* list is read once and persisted at most once, only with all results
\* received: once when the existing refs plus the new refs are not empty,
\* never when they are; a failed persistence is one error of the returned
\* aggregate and leaves the pod-metadata entries of the successful volumes
\* in place.
C14_PersistOnce ==
  \A c \in Calls :
    (kind[c] = "backup" /\ PastAbort(c)) =>
      LET ps == hist.persists[c]
          working == Len(hist.refsBefore[c]) + Cardinality(Succeeded(c))
      IN /\ hist.reads[c] = 1
         /\ Len(ps) <= 1
         /\ \A i \in DOMAIN ps :
              /\ ps[i].received = Cardinality(sel[c])
              /\ \A v \in sel[c] : tpc[c][v] = "done"
              /\ ps[i].refs # << >>
         /\ pc[c] # "done" => ps = << >>
         /\ pc[c] = "done" => (Len(ps) = 1 <=> working > 0)
         /\ pc[c] = "done" =>
              Count(Err("SetSnapshots", ""), ret[c].errs) =
                (IF PersistFailed(c) THEN 1 ELSE 0)
         /\ (pc[c] = "done" /\ PersistFailed(c)) =>
              \A v \in Succeeded(c) :
                /\ v \in DOMAIN podMeta[c]
                /\ podMeta[c][v] = <<podNS[c], ResolvedID(c, v)>>

\* one backup returned without persisting an empty list, another returned
\* the persistence failure with its successful volume still recorded on
\* the pod
C14_Witness ==
  \E c, d \in Calls :
    /\ BackupDone(c) /\ hist.persists[c] = << >>
    /\ BackupDone(d) /\ PersistFailed(d) /\ Succeeded(d) # {}
    /\ ret[d].errs = << Err("SetSnapshots", "") >>
    /\ \A v \in Succeeded(d) : v \in DOMAIN podMeta[d]

SucceededRefs(c) == {<<podNS[c], ResolvedID(c, v)>> : v \in Succeeded(c)}

\* C15: within one backup call no ref is removed: every list the call
\* persists starts with the list read at the start of the call, in the
\* same order, and continues with one ref per volume that succeeded in
\* the call and nothing else.
C15_RefsNeverRemoved ==
  \A c \in Calls :
    \A i \in DOMAIN hist.persists[c] :
      LET refs == hist.persists[c][i].refs
          old == hist.refsBefore[c]
      IN /\ Len(refs) = Len(old) + Cardinality(Succeeded(c))
         /\ SubSeq(refs, 1, Len(old)) = old
         /\ \A j \in (Len(old) + 1)..Len(refs) : refs[j] \in SucceededRefs(c)
         /\ \A r \in SucceededRefs(c) :
              \E j \in (Len(old) + 1)..Len(refs) : refs[j] = r
         /\ hist.persists[c][i].ok => hist.refsAfter[c] = refs

\* a call that found a ref on the Backup persisted it followed by the ref
\* of its own successful volume
C15_Witness ==
  \E c \in Calls :
    /\ BackupDone(c) /\ Succeeded(c) # {}
    /\ Len(hist.refsBefore[c]) = 1
    /\ Len(hist.persists[c]) = 1 /\ hist.persists[c][1].ok
    /\ Len(hist.refsAfter[c]) = 2
    /\ hist.refsAfter[c][1] = hist.refsBefore[c][1]
    /\ hist.refsAfter[c][2] \in SucceededRefs(c)

OnBackup(ref) == \E i \in DOMAIN backupAnno.refs : backupAnno.refs[i] = ref

\* C16: when two backup calls for different pods of one Backup have both
\* returned and neither failed to persist, the Backup's ref list holds the
\* ref of every volume that succeeded in either call, also when the calls
\* ran side by side.
C16_NoRefLost ==
  (\A c \in Calls : BackupDone(c) /\ ~PersistFailed(c)) =>
    \A c \in Calls : \A r \in SucceededRefs(c) : OnBackup(r)

\* the orchestrator of call c receives the result of volume v in this step
Receives(c, v) ==
  /\ tpc[c][v] = "send" /\ tpc'[c][v] = "done"
  /\ received'[c] = received[c] + 1
  /\ hist'.sends[c][v] = hist.sends[c][v] + 1
  /\ \A w \in Volumes \ {v} : tpc'[c][w] = tpc[c][w]

\* C17: while the goroutines of a call run, every step that changes the
\* pod's volume->snapshot metadata, the working ref list or the error list
\* of the call is the orchestrator's receive of one goroutine's result,
\* and what it writes is that result; a step of a goroutine changes none
\* of them.
C17_WritesOnlyByCollector ==
  [][\A c \in Calls :
       (/\ pc[c] = "collect"
        /\ \/ podMeta'[c] # podMeta[c]
           \/ backupSnapshots'[c] # backupSnapshots[c]
           \/ errs'[c] # errs[c]) =>
         \E v \in sel[c] :
           /\ Receives(c, v)
           /\ podMeta'[c] # podMeta[c] =>
                podMeta'[c] = SetPodSnapshotAnnotation(podMeta[c], v,
                                                       tres[c][v].snapshotID)
           /\ backupSnapshots'[c] # backupSnapshots[c] =>
                backupSnapshots'[c] =
                  Append(backupSnapshots[c], tres[c][v].snapshotID)
           /\ errs'[c] # errs[c] => errs'[c] = Append(errs[c], tres[c][v].err)
    ]_vars

\* the orchestrator has received a failed and a successful result and has
\* written one error and one metadata entry
C17_Witness ==
  \E c \in Calls :
    /\ pc[c] = "persist" /\ received[c] = 2
    /\ Len(errs[c]) = 1 /\ hist.metaWrites[c] = 1
    /\ Len(backupSnapshots[c]) = Len(hist.refsBefore[c]) + 1

\* the volume is in the pod spec and its directory resolved
Resolved(c, v) ==
  /\ Len(hist.steps[c][v]) >= 2
  /\ hist.steps[c][v][1] = Step("getVolume", "ok", "")
  /\ hist.steps[c][v][2] = Step("getVolumeDirectory", "ok", "")

Finished(c, v) == tpc[c][v] \in {"send", "done"}

\* C18: no cancellation and no retry: a volume's goroutine performs each
\* of its steps at most once and none after its first failing step; once
\* it has finished, its data-movement command has been issued exactly once
\* if the volume is in the pod spec and its directory resolved, and not at
\* all otherwise, whatever its siblings did.
C18_NoCancelNoRetry ==
  \A c \in Calls, v \in Volumes :
    LET st == hist.steps[c][v]
    IN /\ \A i, j \in DOMAIN st : st[i].step = st[j].step => i = j
       /\ \A i \in DOMAIN st : i < Len(st) => st[i].out = "ok"
       /\ OwnFailure(c, v) => Finished(c, v)
       /\ Cardinality(DataCommands(c, v)) <= 1
       /\ Len(hist.cmds[c][v]) <= 2
       /\ Finished(c, v) =>
            Cardinality(DataCommands(c, v)) =
              (IF Resolved(c, v) THEN 1 ELSE 0)
       /\ (Finished(c, v) /\ OwnFailure(c, v)) =>
            Len(hist.cmds[c][v]) =
              Cardinality({i \in DOMAIN st :
                             st[i].step \in {"exec", "complete"}})

\* a volume's command timed out and its result was collected, and its
\* sibling's command was still issued, once, and succeeded
C18_Witness ==
  \E c \in Calls :
    \E v, w \in sel[c] :
      /\ tpc[c][v] = "done"
      /\ hist.steps[c][v][Len(hist.steps[c][v])] = Step("exec", "timeout", "")
      /\ Len(hist.cmds[c][v]) = 1
      /\ tpc[c][w] = "getid"
      /\ Len(hist.cmds[c][w]) = 1 /\ hist.cmds[c][w][1].out = "ok"

\* C19: the fan-out is parallel: a goroutine can take each of its steps
\* whatever its siblings are doing (it waits for the lock only while an
\* exclusive holder is present, never for a sibling's command or for a
\* sibling's result to be collected), and the orchestrator in its loop
\* can receive whichever result is ready, in any order.
C19_ParallelFanOut ==
  \A c \in Calls, v \in Volumes :
    /\ tpc[c][v] = "lookup" => ENABLED LookupVolume(c, v)
    /\ (tpc[c][v] = "rlock" /\ ~excl[podNS[c]]) => ENABLED RLock(c, v)
    /\ tpc[c][v] = "exec" => ENABLED Exec(c, v)
    /\ tpc[c][v] = "getid" => ENABLED GetSnapshotID(c, v)
    /\ tpc[c][v] = "complete" => ENABLED Complete(c, v)
    /\ tpc[c][v] = "send" =>
         /\ pc[c] = "collect"
         /\ ENABLED (BackupCollect(c, v) \/ RestoreCollect(c, v))

\* all goroutines of a call with more than one volume are executing their
\* remote command at the same time, each holding the shared lock
C19_Witness ==
  \E c \in Calls :
    /\ Cardinality(sel[c]) > 1
    /\ \A v \in sel[c] : tpc[c][v] = "exec" /\ Holding(c, v)
    /\ shared[podNS[c]] = Cardinality(sel[c])

\* the item's storage class can be read and is a non-empty name
HasStorageClass(item) ==
  item.unstructured /\ item.field = "string" /\ item.value # ""

\* the item's storage class can be read and is absent or empty
HasNoStorageClass(item) ==
  /\ item.unstructured
  /\ item.field = "absent" \/ (item.field = "string" /\ item.value = "")

HasMappings(config) ==
  ~config.err /\ config.present /\ DOMAIN config.data # {}

\* C20: Execute sets the item's storage class to the mapped name only
\* when the config maps the item's current, non-empty class and the mapped
\* class is found through the API, and then it does; with no config or an
\* empty one, with an item without storage class, or with a class that
\* has no mapping, it returns the input item unchanged and no error; when
\* reading the config or looking up the mapped class fails it returns an
\* error and the item keeps its storage class. (A failed config read comes
\* before everything else; an item that is no unstructured object or whose
\* storageClassName is no string is an error once there are mappings.)
C20_StorageClassMapped ==
  action.phase = "returned" =>
    LET config == action.config
        in == action.input
        api == action.api
        out == action.out
        maps == HasMappings(config) /\ HasStorageClass(in)
                  /\ in.value \in DOMAIN config.data
        found == maps /\ api.ok /\ config.data[in.value] \in api.classes
    IN /\ (out.item # in /\ out.err = "") => found
       /\ action.item # in => found
       /\ found =>
            /\ out = Output([in EXCEPT !.value = config.data[in.value]])
            /\ action.item = out.item
       /\ ~found => action.item = in
       /\ (/\ ~config.err
           /\ \/ ~HasMappings(config)
              \/ HasNoStorageClass(in)
              \/ HasStorageClass(in) /\ in.value \notin DOMAIN config.data)
            => out = Output(in)
       /\ (config.err \/ (maps /\ ~found)) =>
            /\ out.err # "" /\ out.item = NilItem
            /\ action.item = in
       /\ (HasMappings(config) /\ ~HasStorageClass(in)
              /\ ~HasNoStorageClass(in)) =>
            out.err # "" /\ action.item = in

\* an item of class sc1 came back with the class sc1 is mapped to, which
\* the API knows
C20_Witness ==
  /\ action.phase = "returned"
  /\ action.input.value = "sc1"
  /\ action.out = Output([action.input EXCEPT !.value = "sc2"])
  /\ action.config.data["sc1"] = "sc2"
  /\ "sc2" \in action.api.classes

====
